---- MODULE Spec2Model ----
(***************************************************************************)
(* The gang-sheet editor (the App component of the client) as a state      *)
(* machine: the React state of App, the live attributes of the Konva nodes *)
(* and the dragStartAttrs ref are the variables; every event handler is    *)
(* one action, taken atomically and followed by the re-render it causes.   *)
(*                                                                         *)
(* Numbers keep the values of the source.  Scale factors are rationals     *)
(* [n, d] in lowest terms, so that maxPx / file.width and the size-field   *)
(* arithmetic are computed exactly.  JavaScript arrays are sequences, read *)
(* with 0-based indices through At and Slice.                              *)
(***************************************************************************)
EXTENDS Integers, Sequences, FiniteSets, TLC

---------------------------------------------------------------------------
(* Bounds of the model                                                     *)

\* longest history the model lets a commit build
MaxHistory == 3
\* number of ids generateId hands out in one run
MaxIds == 2

---------------------------------------------------------------------------
(* Constants of the program                                                *)

PPI == 96
maxInches == 10
OFFSET == 30

---------------------------------------------------------------------------
(* Values                                                                  *)

\* what JavaScript yields for an array index out of range
Undefined == <<[undefined |-> TRUE]>>

\* an absent optional field (highResSrc?)
NoSrc == "undefined"

Abs(a) == IF a < 0 THEN -a ELSE a

RECURSIVE Gcd(_, _)
Gcd(a, b) == IF b = 0 THEN a ELSE Gcd(b, a % b)

\* the rational n/d in lowest terms with a positive denominator (d # 0)
Rat(n, d) ==
    LET g == Gcd(Abs(n), Abs(d))
        s == IF d < 0 THEN -1 ELSE 1
    IN  [n |-> (s * n) \div g, d |-> (s * d) \div g]

RatMul(a, b) == Rat(a.n * b.n, a.d * b.d)
RatDiv(a, b) == Rat(a.n * b.d, a.d * b.n)
RatAdd(a, b) == Rat(a.n * b.d + b.n * a.d, a.d * b.d)
RatOfInt(i) == [n |-> i, d |-> 1]
RatLess(a, b) == a.n * b.d < b.n * a.d
RatSub(a, b) == Rat(a.n * b.d - b.n * a.d, a.d * b.d)
RatAbs(a) == [n |-> Abs(a.n), d |-> a.d]

\* array[i] of JavaScript, i counted from 0
At(arr, i) == IF i >= 0 /\ i < Len(arr) THEN arr[i + 1] ELSE Undefined

\* array.slice(from, to) of JavaScript for 0 <= from: the indices are clamped
Slice(arr, from, to) ==
    LET hi == IF to > Len(arr) THEN Len(arr) ELSE to
    IN  IF from >= hi THEN <<>> ELSE SubSeq(arr, from + 1, hi)

Range(s) == {s[i] : i \in DOMAIN s}

Includes(s, v) == \E i \in DOMAIN s : s[i] = v

\* the ids of an object list
Ids(objs) == {objs[i].id : i \in DOMAIN objs}

\* objects.find(o => o.id === id), for an id that is in the list
Find(objs, id) == objs[CHOOSE i \in DOMAIN objs :
                          objs[i].id = id /\ \A j \in DOMAIN objs : objs[j].id = id => i <= j]

---------------------------------------------------------------------------
(* The asset library                                                       *)

\* The finished uploads the user can place (UploadedFile with isUploading
\* false): an image wider than the 10 inch limit of addToCanvas.
FinishedUploads ==
    { [id |-> "f1", src |-> "thumb1", highResSrc |-> "hq1",
       width |-> 1920, height |-> 960, isUploading |-> FALSE] }

\* The documents GET /designs/:id can answer with: one without an objects
\* field and one saved with a single object.
LoadedObject ==
    [id |-> 100, type |-> "image", x |-> 50, y |-> 50, width |-> 96, height |-> 96,
     rotation |-> 0, scaleX |-> Rat(1, 1), scaleY |-> Rat(1, 1),
     src |-> "thumb0", highResSrc |-> "hq0", zIndex |-> 0]

LoadedDesigns ==
    { [hasObjects |-> FALSE, objects |-> <<>>],
      [hasObjects |-> TRUE, objects |-> <<LoadedObject>>] }

\* A saved design of two objects, for the drags of a group of objects next
\* to an object that is not selected
LoadedObject2 == [LoadedObject EXCEPT !.id = 101, !.x = 200, !.zIndex = 1]

SavedSheets == { [hasObjects |-> TRUE, objects |-> <<LoadedObject, LoadedObject2>>] }

\* A saved design of three objects, as three additions leave it
LoadedObject3 == [LoadedObject EXCEPT !.id = 102, !.x = 350, !.zIndex = 2]

LayerSheets == { [hasObjects |-> TRUE, objects |-> <<LoadedObject, LoadedObject2, LoadedObject3>>] }

\* Pointer positions (sheet space) a drag can bring the dragged node to
DragPositions == { [x |-> 10, y |-> 20], [x |-> 300, y |-> 50] }

\* Live attributes a transform gesture can leave on the driven node: moved,
\* rotated and mirrored
TransformStates ==
    { [x |-> 60, y |-> 40, rotation |-> 90, scaleX |-> Rat(-1, 2), scaleY |-> Rat(1, 2)] }

\* Pointer positions of a marquee drag
MarqueePoints == { [x |-> 0, y |-> 0], [x |-> 60, y |-> 60] }

\* Numbers typed into a size field, in inches (0 stands for every rejected text)
TypedValues == {0, 2}

---------------------------------------------------------------------------
(* State                                                                   *)

VARIABLES
    objects,        \* useState objects: the live object list
    selectedIds,    \* useState selectedIds
    selectionBox,   \* useState selectionBox (NoBox for null)
    history,        \* useState history
    historyStep,    \* useState historyStep (0-based cursor)
    isDragging,     \* useState isDragging
    dragStartAttrs, \* useRef dragStartAttrs: id -> object at gesture start
    nodes,          \* the Konva Groups on the stage: id -> live attributes
    gesture,        \* the pointer gesture in progress
    isFocused,      \* PropertyInput isFocused
    load,           \* the design fetch of the startup effect: "pending" while
                    \* it is in flight, "settled" otherwise
    nextId,         \* number of ids generateId has handed out
    lastOp,         \* the handler that ran last, when it is one that reads or
                    \* writes objects or history ("other" otherwise)
    run,            \* bookkeeping of a commit / undo / redo run since start
    \* The handler of POST /api/export on the server (server.js 235-388)
    body,           \* req.body of the request being handled (NoBody: none yet)
    canvasElement,  \* the canvas.Canvas of the request (NoCanvas: not allocated)
    imageData,      \* the results of the image loads, one per image object
    drawCalls,      \* the ctx.drawImage calls made, in order
    buffer,         \* the PNG buffer: "none", "pending", "ok" or "failed"
    res,            \* the response sent (NoResponse: none yet)
    handler,        \* where the handler stands
    settled,        \* the image loads that have settled, in the order in
                    \* which they did (indices of imageData)
    \* The collision functions (README.md 118-172, 404-420)
    geometry,       \* the last call of a collision function and its result
    \* The asset library and the export button of the editor
    uploadedFiles,  \* useState uploadedFiles: the entries of the gallery
    uploads,        \* the processFile calls: tempId -> what is still to come
    isExporting,    \* useState isExporting
    exportCall      \* where handleExport stands

editorVars == <<objects, selectedIds, selectionBox, history, historyStep, isDragging,
                dragStartAttrs, nodes, gesture, isFocused, load, nextId, lastOp, run>>

exportVars == <<body, canvasElement, imageData, drawCalls, buffer, res, handler, settled>>

clientVars == <<uploadedFiles, uploads, isExporting, exportCall>>

vars == <<editorVars, exportVars, geometry, clientVars>>

NoBox == [startX |-> -1, startY |-> -1, x |-> -1, y |-> -1, width |-> -1, height |-> -1]

Idle == [kind |-> "idle", id |-> 0]

\* No node, no entry: the function with the empty domain
Empty == [i \in {} |-> 0]

\* The render at line 1290 maps over objects: with objects undefined it throws,
\* and React unmounts the application.
Crashed == objects = Undefined

\* The export handler before a request: no body received, no canvas
\* allocated, nothing sent
NoBody == [size |-> [present |-> FALSE], objects |-> [kind |-> "missing"]]

NoCanvas == [width |-> 0, height |-> 0]

NoResponse == [status |-> 0]

\* No collision function has been called
NotCalled == [op |-> "none"]

---------------------------------------------------------------------------
(* Rendering                                                               *)

\* The attributes a URLImage Group is created with
NodeOf(o) == [x |-> o.x, y |-> o.y, rotation |-> o.rotation,
              scaleX |-> o.scaleX, scaleY |-> o.scaleY]

\* One render of the object layer: a Group is kept per key (the object id); a
\* prop that changed since the last render is written to the node, a prop
\* that did not change leaves the node's live attribute alone, an object
\* that is new gets a new node and an object that is gone loses its node.
RenderNodes(oldObjs, oldNodes, newObjs) ==
    IF newObjs = Undefined THEN Empty
    ELSE [id \in Ids(newObjs) |->
            LET o == Find(newObjs, id) IN
            IF oldObjs # Undefined /\ id \in Ids(oldObjs) /\ id \in DOMAIN oldNodes
            THEN LET p == Find(oldObjs, id)
                     n == oldNodes[id]
                 IN  [x        |-> IF o.x # p.x THEN o.x ELSE n.x,
                      y        |-> IF o.y # p.y THEN o.y ELSE n.y,
                      rotation |-> IF o.rotation # p.rotation THEN o.rotation ELSE n.rotation,
                      scaleX   |-> IF o.scaleX # p.scaleX THEN o.scaleX ELSE n.scaleX,
                      scaleY   |-> IF o.scaleY # p.scaleY THEN o.scaleY ELSE n.scaleY]
            ELSE NodeOf(o)]

\* The re-render that follows a handler which set React state
Render == nodes' = RenderNodes(objects, nodes, objects')

\* The size fields are on screen when exactly one id is selected and it is
\* the id of an object (selectedObject, lines 1013-1015 and 1192)
PropertyInputShown(objs, sel) ==
    /\ objs # Undefined
    /\ Len(sel) = 1
    /\ sel[1] \in Ids(objs)

---------------------------------------------------------------------------
(* Bookkeeping of a run of commits, undos and redos from the initial       *)
(* history: n commits, then k undos, then either r redos or one more       *)
(* commit followed by a redo.  Any other change of objects or history      *)
(* ends the run.                                                           *)

RunStart == [phase |-> "commits", n |-> 0, k |-> 0, r |-> 0,
             distinct |-> TRUE, last |-> <<>>]

RunOff == [phase |-> "off", n |-> 0, k |-> 0, r |-> 0,
           distinct |-> FALSE, last |-> <<>>]

RunCommit(newObjects) ==
    CASE run.phase = "commits" ->
            [run EXCEPT !.n = @ + 1, !.last = newObjects,
                        !.distinct = @ /\ newObjects \notin Range(history)]
      [] run.phase = "undos" /\ run.k < run.n ->
            [run EXCEPT !.phase = "recommit"]
      [] OTHER -> RunOff

RunUndo ==
    CASE run.phase \in {"commits", "undos"} /\ run.k < run.n ->
            [run EXCEPT !.phase = "undos", !.k = @ + 1]
      [] OTHER -> RunOff

RunRedo ==
    CASE run.phase = "undos" /\ run.k = run.n ->
            [run EXCEPT !.phase = "redos", !.r = 1]
      [] run.phase = "redos" /\ run.r < run.n ->
            [run EXCEPT !.r = @ + 1]
      [] run.phase = "recommit" ->
            [run EXCEPT !.phase = "redoAfter"]
      [] OTHER -> RunOff

---------------------------------------------------------------------------
(* Initial state                                                           *)

\* The state after the first render; the startup effect has started the
\* design fetch when the URL carries a designId.
Init ==
    /\ objects = <<>>
    /\ selectedIds = <<>>
    /\ selectionBox = NoBox
    /\ history = << <<>> >>
    /\ historyStep = 0
    /\ isDragging = FALSE
    /\ dragStartAttrs = Empty
    /\ nodes = Empty
    /\ gesture = Idle
    /\ isFocused = FALSE
    /\ load \in {"settled", "pending"}
    /\ nextId = 0
    /\ lastOp = "init"
    /\ run = RunStart
    /\ body = NoBody
    /\ canvasElement = NoCanvas
    /\ imageData = <<>>
    /\ drawCalls = <<>>
    /\ buffer = "none"
    /\ res = NoResponse
    /\ handler = "idle"
    /\ settled = <<>>
    /\ geometry = NotCalled
    /\ uploadedFiles = <<>>
    /\ uploads = Empty
    /\ isExporting = FALSE
    /\ exportCall = "idle"

---------------------------------------------------------------------------
(* History                                                                 *)

\* saveHistory without the slice: the entries beyond the cursor are kept
saveHistory_noTruncate(newObjects) ==
    LET newHistory == Append(history, newObjects) IN
    /\ history' = newHistory
    /\ historyStep' = Len(newHistory) - 1
    /\ objects' = newObjects

\* saveHistory(newObjects), lines 380-386
saveHistory(newObjects) ==
    LET newHistory == Append(Slice(history, 0, historyStep + 1), newObjects) IN
    /\ history' = newHistory
    /\ historyStep' = Len(newHistory) - 1
    /\ objects' = newObjects

\* undo that reads the entry at the old cursor
undo_staleEntry ==
    /\ IF historyStep > 0
       THEN /\ historyStep' = historyStep - 1
            /\ objects' = At(history, historyStep)
            /\ selectedIds' = <<>>
       ELSE UNCHANGED <<historyStep, objects, selectedIds>>
    /\ UNCHANGED history

\* undo that keeps the selection
undo_keepSelection ==
    /\ IF historyStep > 0
       THEN /\ historyStep' = historyStep - 1
            /\ objects' = At(history, historyStep - 1)
       ELSE UNCHANGED <<historyStep, objects>>
    /\ UNCHANGED <<history, selectedIds>>

\* undo(), lines 388-394
undo ==
    /\ IF historyStep > 0
       THEN /\ historyStep' = historyStep - 1
            /\ objects' = At(history, historyStep - 1)
            /\ selectedIds' = <<>>
       ELSE UNCHANGED <<historyStep, objects, selectedIds>>
    /\ UNCHANGED history

\* redo that steps also from the last entry
redo_pastEnd ==
    /\ IF historyStep < Len(history)
       THEN /\ historyStep' = historyStep + 1
            /\ objects' = At(history, historyStep + 1)
            /\ selectedIds' = <<>>
       ELSE UNCHANGED <<historyStep, objects, selectedIds>>
    /\ UNCHANGED history

\* redo(), lines 396-402
redo ==
    /\ IF historyStep < Len(history) - 1
       THEN /\ historyStep' = historyStep + 1
            /\ objects' = At(history, historyStep + 1)
            /\ selectedIds' = <<>>
       ELSE UNCHANGED <<historyStep, objects, selectedIds>>
    /\ UNCHANGED history

\* The model lets a commit happen while the history it builds stays within
\* MaxHistory entries.
CanCommit == Len(Slice(history, 0, historyStep + 1)) + 1 <= MaxHistory

\* The undo button (line 1339)
Undo ==
    /\ ~Crashed
    /\ gesture = Idle
    /\ ~isFocused
    /\ undo
    /\ lastOp' = "undo"
    /\ UNCHANGED <<exportVars, geometry, clientVars>>
    /\ run' = RunUndo
    /\ UNCHANGED <<selectionBox, isDragging, dragStartAttrs, gesture, isFocused, load, nextId>>
    /\ Render

\* The redo button (line 1342)
Redo ==
    /\ ~Crashed
    /\ gesture = Idle
    /\ ~isFocused
    /\ redo
    /\ lastOp' = "redo"
    /\ UNCHANGED <<exportVars, geometry, clientVars>>
    /\ run' = RunRedo
    /\ UNCHANGED <<selectionBox, isDragging, dragStartAttrs, gesture, isFocused, load, nextId>>
    /\ Render

---------------------------------------------------------------------------
(* Adding, deleting and duplicating objects                                *)

\* addObject without the test for an id that is already there
addObject_noGuard(obj) ==
    /\ saveHistory(Append(objects, obj))
    /\ selectedIds' = <<obj.id>>

\* addObject(obj), lines 422-428
addObject(obj) ==
    IF obj.id \in Ids(objects)
    THEN UNCHANGED <<history, historyStep, objects, selectedIds>>
    ELSE /\ saveHistory(Append(objects, obj))
         /\ selectedIds' = <<obj.id>>

\* The object addToCanvas(file) builds, lines 514-537, with id the value
\* generateId returns
NewObject(file, id) ==
    LET maxPx  == maxInches * PPI
        scale  == IF file.width > maxPx THEN Rat(maxPx, file.width) ELSE Rat(1, 1)
        count  == Len(objects)
        offset == (count % 10) * 20
    IN  [id |-> id, type |-> "image", x |-> 50 + offset, y |-> 50 + offset,
         src |-> file.src, highResSrc |-> file.highResSrc, rotation |-> 0,
         scaleX |-> scale, scaleY |-> scale,
         width |-> file.width, height |-> file.height, zIndex |-> Len(objects)]

\* A click on a gallery entry: addToCanvas(file), lines 508-539.  generateId
\* (line 113) draws a random 9-character id; the model hands out the ids
\* 1, 2, ... so that every generated id is new.
AddFile(files) ==
    /\ ~Crashed
    /\ gesture = Idle
    /\ ~isFocused
    /\ nextId < MaxIds
    /\ CanCommit
    /\ \E file \in files :
          /\ ~file.isUploading
          /\ addObject(NewObject(file, nextId + 1))
          /\ run' = RunCommit(Append(objects, NewObject(file, nextId + 1)))
    /\ nextId' = nextId + 1
    /\ lastOp' = "addToCanvas"
    /\ UNCHANGED <<exportVars, geometry, clientVars>>
    /\ UNCHANGED <<selectionBox, isDragging, dragStartAttrs, gesture, isFocused, load>>
    /\ Render

AddToCanvas == AddFile(FinishedUploads)

\* handleDelete(), lines 547-553: the Delete / Backspace key outside an input
\* (lines 707-711) and the Delete button of a multi-selection (line 1184)
handleDelete ==
    LET newObjects == SelectSeq(objects, LAMBDA o : ~Includes(selectedIds, o.id)) IN
    /\ saveHistory(newObjects)
    /\ selectedIds' = <<>>

HandleDelete ==
    /\ ~Crashed
    /\ gesture = Idle
    /\ ~isFocused
    /\ Len(selectedIds) > 0
    /\ CanCommit
    /\ handleDelete
    /\ run' = RunCommit(objects')
    /\ lastOp' = "handleDelete"
    /\ UNCHANGED <<exportVars, geometry, clientVars>>
    /\ UNCHANGED <<selectionBox, isDragging, dragStartAttrs, gesture, isFocused, load, nextId>>
    /\ Render

\* deleteSingle(id), lines 555-559
deleteSingle(id) ==
    LET newObjects == SelectSeq(objects, LAMBDA o : o.id # id) IN
    /\ saveHistory(newObjects)
    /\ selectedIds' = SelectSeq(selectedIds, LAMBDA pid : pid # id)

\* The Delete button of the properties panel (line 1200), shown for
\* selectedObject
DeleteSingle ==
    /\ ~Crashed
    /\ gesture = Idle
    /\ ~isFocused
    /\ PropertyInputShown(objects, selectedIds)
    /\ CanCommit
    /\ deleteSingle(selectedIds[1])
    /\ run' = RunCommit(objects')
    /\ lastOp' = "deleteSingle"
    /\ UNCHANGED <<exportVars, geometry, clientVars>>
    /\ UNCHANGED <<selectionBox, isDragging, dragStartAttrs, gesture, isFocused, load, nextId>>
    /\ Render

\* The copies handleDuplicate makes, lines 564-581: one per selected object,
\* in list order
Duplicates ==
    LET sel == SelectSeq(objects, LAMBDA o : Includes(selectedIds, o.id)) IN
    [i \in 1..Len(sel) |->
        [sel[i] EXCEPT !.id = nextId + i,
                       !.x = @ + OFFSET,
                       !.y = @ + OFFSET,
                       !.zIndex = Len(objects) + (i - 1)]]

\* handleDuplicate(), lines 561-588
handleDuplicate ==
    IF Len(selectedIds) = 0 \/ Len(Duplicates) = 0
    THEN UNCHANGED <<history, historyStep, objects, selectedIds>>
    ELSE /\ saveHistory(objects \o Duplicates)
         /\ selectedIds' = [i \in 1..Len(Duplicates) |-> Duplicates[i].id]

\* Ctrl/Cmd+D (lines 702-705, also while a size field has the focus) and the
\* Clone buttons (lines 1177, 1197)
HandleDuplicate ==
    /\ ~Crashed
    /\ gesture = Idle
    /\ Len(selectedIds) > 0
    /\ Len(Duplicates) > 0
    /\ nextId + Len(Duplicates) <= MaxIds
    /\ CanCommit
    /\ handleDuplicate
    /\ nextId' = nextId + Len(Duplicates)
    /\ run' = RunCommit(objects')
    /\ isFocused' = (isFocused /\ PropertyInputShown(objects', selectedIds'))
    /\ lastOp' = "handleDuplicate"
    /\ UNCHANGED <<exportVars, geometry, clientVars>>
    /\ UNCHANGED <<selectionBox, isDragging, dragStartAttrs, gesture, load>>
    /\ Render

---------------------------------------------------------------------------
(* Selection                                                               *)

\* handleStageMouseDown on the empty stage, lines 794-806: a marquee starts
\* at localPos
StageMouseDownEmpty ==
    /\ ~Crashed
    /\ gesture = Idle
    /\ ~isFocused
    /\ \E localPos \in MarqueePoints, isMultiSelect \in BOOLEAN :
          /\ selectionBox' = [startX |-> localPos.x, startY |-> localPos.y,
                              x |-> localPos.x, y |-> localPos.y,
                              width |-> 0, height |-> 0]
          /\ selectedIds' = IF isMultiSelect THEN selectedIds ELSE <<>>
    /\ gesture' = [kind |-> "marquee", id |-> 0]
    /\ lastOp' = "other"
    /\ UNCHANGED <<exportVars, geometry, clientVars>>
    /\ UNCHANGED <<objects, history, historyStep, isDragging, dragStartAttrs,
                   isFocused, load, nextId, run>>
    /\ Render

\* A click handler whose modifier click only ever adds
clickObject_noRemove(clickedId, isMultiSelect) ==
    selectedIds' =
        IF isMultiSelect
        THEN IF Includes(selectedIds, clickedId)
             THEN selectedIds
             ELSE Append(selectedIds, clickedId)
        ELSE IF ~Includes(selectedIds, clickedId)
             THEN <<clickedId>>
             ELSE selectedIds

\* handleStageMouseDown on an object, lines 807-837
clickObject(clickedId, isMultiSelect) ==
    selectedIds' =
        IF isMultiSelect
        THEN IF Includes(selectedIds, clickedId)
             THEN SelectSeq(selectedIds, LAMBDA id : id # clickedId)
             ELSE Append(selectedIds, clickedId)
        ELSE IF ~Includes(selectedIds, clickedId)
             THEN <<clickedId>>
             ELSE selectedIds

StageMouseDownObject ==
    /\ ~Crashed
    /\ gesture = Idle
    /\ ~isFocused
    /\ \E clickedId \in DOMAIN nodes, isMultiSelect \in BOOLEAN :
          /\ clickObject(clickedId, isMultiSelect)
          /\ gesture' = [kind |-> "pressed", id |-> clickedId]
    /\ lastOp' = "other"
    /\ UNCHANGED <<exportVars, geometry, clientVars>>
    /\ UNCHANGED <<objects, selectionBox, history, historyStep, isDragging,
                   dragStartAttrs, isFocused, load, nextId, run>>
    /\ Render

\* handleMouseMove with a marquee open, lines 847-866
MouseMove ==
    /\ ~Crashed
    /\ gesture.kind = "marquee"
    /\ selectionBox # NoBox
    /\ \E localPos \in MarqueePoints :
          selectionBox' =
              [selectionBox EXCEPT
                  !.x = IF selectionBox.startX < localPos.x
                        THEN selectionBox.startX ELSE localPos.x,
                  !.y = IF selectionBox.startY < localPos.y
                        THEN selectionBox.startY ELSE localPos.y,
                  !.width = Abs(localPos.x - selectionBox.startX),
                  !.height = Abs(localPos.y - selectionBox.startY)]
    /\ lastOp' = "other"
    /\ UNCHANGED <<exportVars, geometry, clientVars>>
    /\ UNCHANGED <<objects, selectedIds, history, historyStep, isDragging,
                   dragStartAttrs, gesture, isFocused, load, nextId, run>>
    /\ Render

\* The un-rotated box test of handleMouseUp, lines 881-895
InMarquee(boxRect, obj) ==
    LET objX == RatOfInt(obj.x)
        objY == RatOfInt(obj.y)
        objW == RatMul(RatOfInt(obj.width), obj.scaleX)
        objH == RatMul(RatOfInt(obj.height), obj.scaleY)
    IN  /\ RatLess(RatOfInt(boxRect.x), RatAdd(objX, objW))
        /\ RatLess(objX, RatOfInt(boxRect.x + boxRect.width))
        /\ RatLess(RatOfInt(boxRect.y), RatAdd(objY, objH))
        /\ RatLess(objY, RatOfInt(boxRect.y + boxRect.height))

\* handleMouseUp, lines 869-904
handleMouseUp ==
    IF selectionBox # NoBox
    THEN LET selected == SelectSeq(objects, LAMBDA obj : InMarquee(selectionBox, obj))
             ids == [i \in 1..Len(selected) |-> selected[i].id]
         IN  /\ selectedIds' = IF Len(ids) > 0 THEN ids ELSE selectedIds
             /\ selectionBox' = NoBox
    ELSE UNCHANGED <<selectedIds, selectionBox>>

\* The pointer is released after a marquee or after a press that did not
\* become a drag
MouseUp ==
    /\ ~Crashed
    /\ gesture.kind \in {"marquee", "pressed"}
    /\ handleMouseUp
    /\ gesture' = Idle
    /\ lastOp' = "other"
    /\ UNCHANGED <<exportVars, geometry, clientVars>>
    /\ UNCHANGED <<objects, history, historyStep, isDragging, dragStartAttrs,
                   isFocused, load, nextId, run>>
    /\ Render

---------------------------------------------------------------------------
(* Dragging                                                                *)

\* The entries onDragStart records, lines 910-927
DragAnchors(id) ==
    LET keys == IF Includes(selectedIds, id)
                THEN {sId \in Range(selectedIds) : sId \in DOMAIN nodes /\ sId \in Ids(objects)}
                ELSE {sId \in {id} : sId \in Ids(objects)}
    IN  [sId \in keys |-> [Find(objects, sId) EXCEPT !.x = nodes[sId].x, !.y = nodes[sId].y]]

\* map.set for every entry of new
MapSet(map, new) ==
    [k \in DOMAIN map \cup DOMAIN new |-> IF k \in DOMAIN new THEN new[k] ELSE map[k]]

\* onDragStart, lines 906-929: the pressed object starts to move
DragStart ==
    /\ ~Crashed
    /\ gesture.kind = "pressed"
    /\ gesture.id \in DOMAIN nodes
    /\ CanCommit
    /\ dragStartAttrs' = MapSet(dragStartAttrs, DragAnchors(gesture.id))
    /\ isDragging' = TRUE
    /\ gesture' = [kind |-> "dragging", id |-> gesture.id]
    /\ lastOp' = "other"
    /\ UNCHANGED <<exportVars, geometry, clientVars>>
    /\ UNCHANGED <<objects, selectedIds, selectionBox, history, historyStep,
                   isFocused, load, nextId, run>>
    /\ Render

\* onDragMove that adds the delta to the live position of the other nodes
onDragMove_drift(id, live) ==
    IF Includes(selectedIds, id) /\ Len(selectedIds) > 1 /\ id \in DOMAIN dragStartAttrs
    THEN LET startAttrs == dragStartAttrs[id]
             dx == live[id].x - startAttrs.x
             dy == live[id].y - startAttrs.y
         IN  [sId \in DOMAIN live |->
                IF /\ sId # id
                   /\ Includes(selectedIds, sId)
                   /\ sId \in DOMAIN dragStartAttrs
                THEN [live[sId] EXCEPT !.x = @ + dx, !.y = @ + dy]
                ELSE live[sId]]
    ELSE live

\* onDragMove, lines 931-953, on the nodes as Konva left them (live): the
\* other selected nodes are positioned at their anchor plus the delta of the
\* dragged one
onDragMove(id, live) ==
    IF Includes(selectedIds, id) /\ Len(selectedIds) > 1 /\ id \in DOMAIN dragStartAttrs
    THEN LET startAttrs == dragStartAttrs[id]
             dx == live[id].x - startAttrs.x
             dy == live[id].y - startAttrs.y
         IN  [sId \in DOMAIN live |->
                IF /\ sId # id
                   /\ Includes(selectedIds, sId)
                   /\ sId \in DOMAIN dragStartAttrs
                THEN [live[sId] EXCEPT !.x = dragStartAttrs[sId].x + dx,
                                       !.y = dragStartAttrs[sId].y + dy]
                ELSE live[sId]]
    ELSE live

\* A pointer move during a drag: Konva moves the dragged node to the pointer
\* and fires dragmove
DragMove ==
    /\ ~Crashed
    /\ gesture.kind = "dragging"
    /\ gesture.id \in DOMAIN nodes
    /\ \E pos \in DragPositions :
          nodes' = onDragMove(gesture.id,
                              [nodes EXCEPT ![gesture.id].x = pos.x, ![gesture.id].y = pos.y])
    /\ lastOp' = "other"
    /\ UNCHANGED <<exportVars, geometry, clientVars>>
    /\ UNCHANGED <<objects, selectedIds, selectionBox, history, historyStep, isDragging,
                   dragStartAttrs, gesture, isFocused, load, nextId, run>>

\* The list of a drag end that reads back the dragged node only
DraggedObjects_onlyDriven(id) ==
    [i \in DOMAIN objects |->
        IF objects[i].id = id /\ objects[i].id \in DOMAIN nodes
        THEN [objects[i] EXCEPT !.x = nodes[objects[i].id].x, !.y = nodes[objects[i].id].y]
        ELSE objects[i]]

\* The list onDragEnd commits, lines 956-967
DraggedObjects(id) ==
    LET idsToUpdate == IF Includes(selectedIds, id) THEN selectedIds ELSE <<id>> IN
    [i \in DOMAIN objects |->
        IF Includes(idsToUpdate, objects[i].id) /\ objects[i].id \in DOMAIN nodes
        THEN [objects[i] EXCEPT !.x = nodes[objects[i].id].x, !.y = nodes[objects[i].id].y]
        ELSE objects[i]]

\* onDragEnd, lines 955-972
onDragEnd(id) ==
    /\ saveHistory(DraggedObjects(id))
    /\ isDragging' = FALSE
    /\ dragStartAttrs' = Empty

DragEnd ==
    /\ ~Crashed
    /\ gesture.kind = "dragging"
    /\ CanCommit
    /\ onDragEnd(gesture.id)
    /\ gesture' = Idle
    /\ run' = RunCommit(objects')
    /\ lastOp' = "onDragEnd"
    /\ UNCHANGED <<exportVars, geometry, clientVars>>
    /\ UNCHANGED <<selectedIds, selectionBox, isFocused, load, nextId>>
    /\ Render

---------------------------------------------------------------------------
(* Transforming                                                            *)

\* getUpdatedObjects(id, attrs), lines 541-545, for the attributes of a node
\* (attrs has some of the fields x, y, rotation, scaleX, scaleY)
getUpdatedObjects(id, attrs) ==
    [i \in DOMAIN objects |->
        IF objects[i].id = id
        THEN [f \in DOMAIN objects[i] |->
                 IF f \in DOMAIN attrs THEN attrs[f] ELSE objects[i][f]]
        ELSE objects[i]]

\* onTransformStart, lines 974-981: a handle of the Transformer, which is
\* attached to the selected nodes (lines 999-1011), is pressed
TransformStart ==
    /\ ~Crashed
    /\ gesture = Idle
    /\ ~isFocused
    /\ CanCommit
    /\ \E id \in Range(selectedIds) \cap DOMAIN nodes :
          /\ dragStartAttrs' = IF id \in Ids(objects)
                               THEN MapSet(dragStartAttrs, [k \in {id} |-> Find(objects, id)])
                               ELSE dragStartAttrs
          /\ gesture' = [kind |-> "transforming", id |-> id]
    /\ isDragging' = TRUE
    /\ lastOp' = "other"
    /\ UNCHANGED <<exportVars, geometry, clientVars>>
    /\ UNCHANGED <<objects, selectedIds, selectionBox, history, historyStep,
                   isFocused, load, nextId, run>>
    /\ Render

\* A pointer move during a transform: the Transformer writes position,
\* rotation and scale to the node; no handler of the application runs
TransformMove ==
    /\ ~Crashed
    /\ gesture.kind = "transforming"
    /\ gesture.id \in DOMAIN nodes
    /\ \E t \in TransformStates : nodes' = [nodes EXCEPT ![gesture.id] = t]
    /\ lastOp' = "other"
    /\ UNCHANGED <<exportVars, geometry, clientVars>>
    /\ UNCHANGED <<objects, selectedIds, selectionBox, history, historyStep, isDragging,
                   dragStartAttrs, gesture, isFocused, load, nextId, run>>

\* onTransformEnd, lines 983-997
onTransformEnd(id) ==
    /\ saveHistory(getUpdatedObjects(id, nodes[id]))
    /\ isDragging' = FALSE

TransformEnd ==
    /\ ~Crashed
    /\ gesture.kind = "transforming"
    /\ gesture.id \in DOMAIN nodes
    /\ CanCommit
    /\ onTransformEnd(gesture.id)
    /\ gesture' = Idle
    /\ run' = RunCommit(objects')
    /\ lastOp' = "onTransformEnd"
    /\ UNCHANGED <<exportVars, geometry, clientVars>>
    /\ UNCHANGED <<selectedIds, selectionBox, dragStartAttrs, isFocused, load, nextId>>
    /\ Render

---------------------------------------------------------------------------
(* The size fields                                                         *)

\* handleFocus, lines 227-229
FocusInput ==
    /\ ~Crashed
    /\ gesture = Idle
    /\ ~isFocused
    /\ PropertyInputShown(objects, selectedIds)
    /\ isFocused' = TRUE
    /\ lastOp' = "other"
    /\ UNCHANGED <<exportVars, geometry, clientVars>>
    /\ UNCHANGED <<objects, selectedIds, selectionBox, history, historyStep, isDragging,
                   dragStartAttrs, gesture, load, nextId, run>>
    /\ Render

\* onChange of the Width field that writes the width instead of the scale
widthChange_resize(val) ==
    LET selectedObject == Find(objects, selectedIds[1])
    IN  objects' = getUpdatedObjects(selectedObject.id, [width |-> val * PPI])

\* onChange of the Width field, lines 1217-1223
widthChange(val) ==
    LET selectedObject == Find(objects, selectedIds[1])
        newScaleX == Rat(val * PPI, selectedObject.width)
        ratio     == RatDiv(selectedObject.scaleY, selectedObject.scaleX)
        newScaleY == RatMul(newScaleX, ratio)
    IN  objects' = getUpdatedObjects(selectedObject.id,
                                     [scaleX |-> newScaleX, scaleY |-> newScaleY])

\* onChange of the Height field, lines 1233-1239
heightChange(val) ==
    LET selectedObject == Find(objects, selectedIds[1])
        newScaleY == Rat(val * PPI, selectedObject.height)
        ratio     == RatDiv(selectedObject.scaleX, selectedObject.scaleY)
        newScaleX == RatMul(newScaleY, ratio)
    IN  objects' = getUpdatedObjects(selectedObject.id,
                                     [scaleX |-> newScaleX, scaleY |-> newScaleY])

\* handleChange, lines 205-213: a keystroke in a size field; a text that does
\* not parse to a number > 0 changes the text of the field only
TypeSize ==
    /\ ~Crashed
    /\ isFocused
    /\ PropertyInputShown(objects, selectedIds)
    /\ \E val \in TypedValues, field \in {"width", "height"} :
          IF val > 0
          THEN IF field = "width" THEN widthChange(val) ELSE heightChange(val)
          ELSE UNCHANGED objects
    /\ run' = IF objects' = objects THEN run ELSE RunOff
    /\ lastOp' = "handleChange"
    /\ UNCHANGED <<exportVars, geometry, clientVars>>
    /\ UNCHANGED <<selectedIds, selectionBox, history, historyStep, isDragging,
                   dragStartAttrs, gesture, isFocused, load, nextId>>
    /\ Render

\* handleBlur, lines 215-225, with onCommit, lines 1224-1226 and 1240-1242
BlurInput ==
    /\ ~Crashed
    /\ isFocused
    /\ CanCommit
    /\ isFocused' = FALSE
    /\ saveHistory(objects)
    /\ run' = RunCommit(objects')
    /\ lastOp' = "handleBlur"
    /\ UNCHANGED <<exportVars, geometry, clientVars>>
    /\ UNCHANGED <<selectedIds, selectionBox, isDragging, dragStartAttrs, gesture,
                   load, nextId>>
    /\ Render

---------------------------------------------------------------------------
(* Loading a design                                                        *)

\* The second then of the startup effect, lines 366-371, for the document
\* data.  The model lets the answer arrive at any moment at which no object
\* is being dragged or transformed.
loadDesign(data) ==
    /\ objects' = IF data.hasObjects THEN data.objects ELSE objects
    /\ history' = << IF data.hasObjects THEN data.objects ELSE <<>> >>

LoadArrives(designs) ==
    /\ ~Crashed
    /\ load = "pending"
    /\ gesture.kind \notin {"dragging", "transforming"}
    /\ \E data \in designs : loadDesign(data)
    /\ load' = "settled"
    /\ isFocused' = (isFocused /\ PropertyInputShown(objects', selectedIds))
    /\ run' = RunOff
    /\ lastOp' = "loadDesign"
    /\ UNCHANGED <<exportVars, geometry, clientVars>>
    /\ UNCHANGED <<selectedIds, selectionBox, historyStep, isDragging, dragStartAttrs,
                   gesture, nextId>>
    /\ Render

LoadComplete == LoadArrives(LoadedDesigns)

\* The catch of the startup effect, lines 372-375
LoadFail ==
    /\ load = "pending"
    /\ load' = "settled"
    /\ lastOp' = "other"
    /\ UNCHANGED <<exportVars, geometry, clientVars>>
    /\ UNCHANGED <<objects, selectedIds, selectionBox, history, historyStep, isDragging,
                   dragStartAttrs, nodes, gesture, isFocused, nextId, run>>

---------------------------------------------------------------------------
(* The asset library: processFile, lines 431-482                           *)

\* The images a user can drop: a photo, and an image without intrinsic size
\* (img.naturalWidth and img.naturalHeight are 0 for it)
DroppedFiles ==
    { [naturalWidth |-> 1920, naturalHeight |-> 960],
      [naturalWidth |-> 0, naturalHeight |-> 0] }

\* The entry of the gallery with the id tempId is in the uploading state
Uploading(tempId) ==
    \E i \in DOMAIN uploadedFiles :
        uploadedFiles[i].id = tempId /\ uploadedFiles[i].isUploading

\* processFile(file) up to its await, lines 431-459: the placeholder is made,
\* the local image starts to load and the upload request is sent
ProcessFile ==
    /\ ~Crashed
    /\ nextId < MaxIds
    /\ \E file \in DroppedFiles :
          uploads' = MapSet(uploads, [tempId \in {nextId + 1} |->
                                         [file |-> file, onload |-> "pending",
                                          response |-> "pending"]])
    /\ nextId' = nextId + 1
    /\ UNCHANGED <<uploadedFiles, isExporting, exportCall>>
    /\ UNCHANGED <<objects, selectedIds, selectionBox, history, historyStep, isDragging,
                   dragStartAttrs, nodes, gesture, isFocused, load, lastOp, run>>
    /\ UNCHANGED <<exportVars, geometry>>

\* img.onload, lines 446-450: the placeholder gets the size of the image and
\* is appended to the gallery
ImageOnload ==
    /\ \E tempId \in DOMAIN uploads :
          /\ uploads[tempId].onload = "pending"
          /\ uploadedFiles' =
                Append(uploadedFiles,
                       [id |-> tempId, src |-> "blob", highResSrc |-> NoSrc,
                        width |-> uploads[tempId].file.naturalWidth,
                        height |-> uploads[tempId].file.naturalHeight,
                        isUploading |-> TRUE])
          /\ uploads' = [uploads EXCEPT ![tempId].onload = "fired"]
    /\ UNCHANGED <<isExporting, exportCall>>
    /\ UNCHANGED <<editorVars, exportVars, geometry>>

\* The local image cannot be decoded: no handler is set for the error event,
\* nothing happens
ImageError ==
    /\ \E tempId \in DOMAIN uploads :
          /\ uploads[tempId].onload = "pending"
          /\ uploads' = [uploads EXCEPT ![tempId].onload = "error"]
    /\ UNCHANGED <<uploadedFiles, isExporting, exportCall>>
    /\ UNCHANGED <<editorVars, exportVars, geometry>>

\* The continuation of a good upload response, lines 463-475
uploadDone(tempId) ==
    uploadedFiles' =
        [i \in DOMAIN uploadedFiles |->
            IF uploadedFiles[i].id = tempId
            THEN [uploadedFiles[i] EXCEPT !.src = "thumb1", !.highResSrc = "hq1",
                                          !.isUploading = FALSE]
            ELSE uploadedFiles[i]]

\* The upload answers well
UploadResponds ==
    /\ \E tempId \in DOMAIN uploads :
          /\ uploads[tempId].response = "pending"
          /\ uploadDone(tempId)
          /\ uploads' = [uploads EXCEPT ![tempId].response = "ok"]
    /\ UNCHANGED <<isExporting, exportCall>>
    /\ UNCHANGED <<editorVars, exportVars, geometry>>

\* The upload fails (no connection, a status that is not ok, a body that is
\* not JSON): the catch of lines 477-481
UploadFails ==
    /\ \E tempId \in DOMAIN uploads :
          /\ uploads[tempId].response = "pending"
          /\ uploadedFiles' = SelectSeq(uploadedFiles, LAMBDA f : f.id # tempId)
          /\ uploads' = [uploads EXCEPT ![tempId].response = "failed"]
    /\ UNCHANGED <<isExporting, exportCall>>
    /\ UNCHANGED <<editorVars, exportVars, geometry>>

\* handleDeleteUpload(id), lines 504-506: the trash button of an entry
HandleDeleteUpload ==
    /\ \E i \in DOMAIN uploadedFiles :
          uploadedFiles' = SelectSeq(uploadedFiles, LAMBDA f : f.id # uploadedFiles[i].id)
    /\ UNCHANGED <<uploads, isExporting, exportCall>>
    /\ UNCHANGED <<editorVars, exportVars, geometry>>

\* A click on an entry of the gallery (line 1121): addToCanvas(file), which
\* returns at once for an entry that is uploading
AddFromGallery == AddFile(Range(uploadedFiles))

---------------------------------------------------------------------------
(* The export button: handleExport, lines 624-691                          *)

\* handleExport is not under way
ExportIdle == exportCall \in {"idle", "downloaded", "alerted"}

\* The end of handleExport by the catch of lines 684-687 and the finally
\* of lines 688-690
exportAlerted ==
    /\ exportCall' = "alerted"
    /\ isExporting' = FALSE

\* handleExport up to its first await, lines 624-650.  The button is
\* disabled while isExporting (line 1072); without objects the handler
\* returns at once, and so it does when the user declines to go on with
\* images that have no highResSrc
HandleExport ==
    /\ ~Crashed
    /\ gesture = Idle
    /\ ~isFocused
    /\ ~isExporting
    /\ ExportIdle
    /\ Len(objects) # 0
    /\ LET imagesWithoutHighRes ==
               SelectSeq(objects, LAMBDA obj : obj.type = "image" /\ obj.highResSrc = NoSrc)
       IN  \E confirm \in BOOLEAN : Len(imagesWithoutHighRes) = 0 \/ confirm
    /\ isExporting' = TRUE
    /\ exportCall' = "fetch"
    /\ UNCHANGED <<uploadedFiles, uploads>>
    /\ UNCHANGED <<editorVars, exportVars, geometry>>

\* The fetch of line 646 settles: it rejects, or it resolves with a status
\* that is not ok, with a content type that is not an image, or with the
\* image
ExportFetchSettles ==
    /\ exportCall = "fetch"
    /\ \E outcome \in {"rejected", "notOk", "notImage", "image"} :
          CASE outcome = "rejected" -> exportAlerted
            [] outcome = "notOk" -> exportCall' = "errorJson" /\ UNCHANGED isExporting
            [] outcome = "notImage" -> exportCall' = "notImageJson" /\ UNCHANGED isExporting
            [] outcome = "image" -> exportCall' = "blob" /\ UNCHANGED isExporting
    /\ UNCHANGED <<uploadedFiles, uploads>>
    /\ UNCHANGED <<editorVars, exportVars, geometry>>

\* A handler that resets the flag after a download only
exportBodySettled_noFinally(bodyOk) ==
    IF exportCall = "blob" /\ bodyOk
    THEN /\ exportCall' = "downloaded"
         /\ isExporting' = FALSE
    ELSE /\ exportCall' = "alerted"
         /\ UNCHANGED isExporting

\* The read of the response body settles (response.json() of lines 656 and
\* 669, response.blob() of line 674), bodyOk telling whether it resolved:
\* the file is downloaded, lines 675-682, or an error is thrown to the
\* catch; the finally resets the flag
exportBodySettled(bodyOk) ==
    IF exportCall = "blob" /\ bodyOk
    THEN /\ exportCall' = "downloaded"
         /\ isExporting' = FALSE
    ELSE exportAlerted

ExportBodySettles ==
    /\ exportCall \in {"errorJson", "notImageJson", "blob"}
    /\ \E bodyOk \in BOOLEAN : exportBodySettled(bodyOk)
    /\ UNCHANGED <<uploadedFiles, uploads>>
    /\ UNCHANGED <<editorVars, exportVars, geometry>>

---------------------------------------------------------------------------
(* The export endpoint of the server: POST /api/export                     *)

\* The objects a request can list: an image with both sources, an image
\* with the thumbnail only, a mirrored and rotated image, an image without
\* any source and an object that is not an image.  zIndex does not follow
\* the order in which the objects are named here.
ExportObjects ==
    { [id |-> 1, type |-> "image", x |-> 0, y |-> 0, width |-> 96, height |-> 96,
       rotation |-> 0, scaleX |-> Rat(1, 1), scaleY |-> Rat(1, 1),
       src |-> "thumb1", highResSrc |-> "hq1", zIndex |-> 1],
      [id |-> 2, type |-> "image", x |-> 96, y |-> 0, width |-> 192, height |-> 96,
       rotation |-> 0, scaleX |-> Rat(1, 2), scaleY |-> Rat(1, 2),
       src |-> "thumb2", highResSrc |-> NoSrc, zIndex |-> 0],
      [id |-> 3, type |-> "image", x |-> 48, y |-> 48, width |-> 96, height |-> 192,
       rotation |-> 90, scaleX |-> Rat(-1, 2), scaleY |-> Rat(1, 1),
       src |-> "thumb3", highResSrc |-> "hq3", zIndex |-> 1],
      [id |-> 4, type |-> "image", x |-> 0, y |-> 96, width |-> 96, height |-> 96,
       rotation |-> 0, scaleX |-> Rat(1, 1), scaleY |-> Rat(1, 1),
       src |-> NoSrc, highResSrc |-> NoSrc, zIndex |-> 2],
      [id |-> 5, type |-> "text", x |-> 0, y |-> 0, width |-> 96, height |-> 96,
       rotation |-> 0, scaleX |-> Rat(1, 1), scaleY |-> Rat(1, 1),
       src |-> NoSrc, highResSrc |-> NoSrc, zIndex |-> 3] }

\* The longest object list of a request
MaxExportObjects == 3

\* The lists of distinct objects of at most MaxExportObjects entries
ExportLists ==
    { l \in UNION { [1..n -> ExportObjects] : n \in 0..MaxExportObjects } :
        \A i, j \in DOMAIN l : i # j => l[i].id # l[j].id }

\* The bodies a client can post: size present (the 22 x 12 in sheet of
\* SIZE_OPTIONS) or not; objects missing, something that is not an array, or
\* an array
RequestBodies ==
    { [size |-> sz, objects |-> ob] :
        sz \in { [present |-> FALSE], [present |-> TRUE, width |-> 22 * PPI, height |-> 12 * PPI] },
        ob \in { [kind |-> "missing"], [kind |-> "notArray"] }
               \cup { [kind |-> "array", list |-> l] : l \in ExportLists } }

\* Math.ceil of a non-negative rational
Ceil(r) == IF r.n % r.d = 0 THEN r.n \div r.d ELSE (r.n \div r.d) + 1

\* SCALE_FACTOR, line 249
SCALE_FACTOR == Rat(300, 96)

\* The URL of an object with the thumbnail preferred
imageUrl_thumbFirst(obj) == IF obj.src # NoSrc THEN obj.src ELSE obj.highResSrc

\* obj.highResSrc || obj.src, line 264
imageUrl(obj) == IF obj.highResSrc # NoSrc THEN obj.highResSrc ELSE obj.src

\* v || 1 for a number v, lines 335-336
OrOne(v) == IF v.n = 0 THEN Rat(1, 1) ELSE v

\* The drawImage call of the paint loop for one object, lines 333-342:
\* the destination rectangle and the rotation about its center
DrawCall(obj) ==
    [id |-> obj.id,
     x |-> RatMul(RatOfInt(obj.x), SCALE_FACTOR),
     y |-> RatMul(RatOfInt(obj.y), SCALE_FACTOR),
     width |-> RatMul(RatMul(RatOfInt(obj.width), SCALE_FACTOR), OrOne(obj.scaleX)),
     height |-> RatMul(RatMul(RatOfInt(obj.height), SCALE_FACTOR), OrOne(obj.scaleY)),
     rotation |-> obj.rotation]

\* The error responses, lines 238, 242, 259, 316 and 383
MissingData == [status |-> 400, error |-> "Missing size or objects data"]
NoObjects == [status |-> 400, error |-> "No objects to export"]
NoImageObjects == [status |-> 400, error |-> "No image objects to export"]
NoImagesLoaded == [status |-> 500, error |-> "Failed to load any images"]
GenerateFailed == [status |-> 500, error |-> "Failed to generate image",
                   details |-> "Failed to convert canvas to buffer"]

\* res.send(buffer) with the two headers, lines 377-379
RasterSent == [status |-> 200, headers |-> {"Content-Type", "Content-Disposition"},
               contentType |-> "image/png", body |-> "buffer"]

\* objects.filter(obj => obj.type === 'image'), line 257
imageObjects(list) == SelectSeq(list, LAMBDA obj : obj.type = "image")

\* The start of the load of one image object, lines 263-277: without URL the
\* result is null at once, otherwise axios.get is under way
StartLoad(obj) ==
    IF imageUrl(obj) = NoSrc
    THEN [state |-> "null", obj |-> obj, url |-> NoSrc]
    ELSE [state |-> "pending", obj |-> obj, url |-> imageUrl(obj)]

\* A request arrives: the handler runs to its first await, lines 236-263
ExportRequest ==
    /\ handler = "idle"
    /\ \E b \in RequestBodies :
          /\ body' = b
          /\ IF ~b.size.present \/ b.objects.kind = "missing"
             THEN /\ res' = MissingData
                  /\ handler' = "done"
                  /\ UNCHANGED <<canvasElement, imageData>>
             ELSE IF b.objects.kind # "array" \/ Len(b.objects.list) = 0
             THEN /\ res' = NoObjects
                  /\ handler' = "done"
                  /\ UNCHANGED <<canvasElement, imageData>>
             ELSE /\ canvasElement' =
                        [width |-> Ceil(RatMul(RatOfInt(b.size.width), SCALE_FACTOR)),
                         height |-> Ceil(RatMul(RatOfInt(b.size.height), SCALE_FACTOR))]
                  /\ IF Len(imageObjects(b.objects.list)) = 0
                     THEN /\ res' = NoImageObjects
                          /\ handler' = "done"
                          /\ UNCHANGED imageData
                     ELSE /\ imageData' =
                                [i \in DOMAIN imageObjects(b.objects.list) |->
                                    StartLoad(imageObjects(b.objects.list)[i])]
                          /\ handler' = "awaitImages"
                          /\ UNCHANGED res
    /\ UNCHANGED <<drawCalls, buffer, settled>>
    /\ UNCHANGED <<editorVars, geometry, clientVars>>

\* The download and decode of one image ends well, lines 273-300
LoadSucceeds ==
    /\ handler = "awaitImages"
    /\ \E i \in DOMAIN imageData :
          /\ imageData[i].state = "pending"
          /\ imageData' = [imageData EXCEPT ![i].state = "success"]
          /\ settled' = Append(settled, i)
    /\ UNCHANGED <<body, canvasElement, drawCalls, buffer, res, handler>>
    /\ UNCHANGED <<editorVars, geometry, clientVars>>

\* The download or the decode of one image fails or times out, lines 301-309
LoadFails ==
    /\ handler = "awaitImages"
    /\ \E i \in DOMAIN imageData :
          /\ imageData[i].state = "pending"
          /\ imageData' = [imageData EXCEPT ![i].state = "failed"]
          /\ settled' = Append(settled, i)
    /\ UNCHANGED <<body, canvasElement, drawCalls, buffer, res, handler>>
    /\ UNCHANGED <<editorVars, geometry, clientVars>>

\* imageData.filter(item => item && item.success), line 312
successfulImages == SelectSeq(imageData, LAMBDA item : item.state = "success")

\* Promise.all that resolves as soon as one load has settled
AllLoaded_any == \E i \in DOMAIN imageData : imageData[i].state # "pending"

\* A join that goes on only when no load has failed
AllLoaded_noneFailed == \A i \in DOMAIN imageData : imageData[i].state \notin {"pending", "failed"}

\* Promise.all of line 263 resolves: every load has settled
AllLoaded == \A i \in DOMAIN imageData : imageData[i].state # "pending"

\* The paint loop without the check of successCount
Paint_noZeroCheck ==
    /\ drawCalls' = [i \in DOMAIN successfulImages |-> DrawCall(successfulImages[i].obj)]
    /\ \E bufferOk \in BOOLEAN :
          IF bufferOk
          THEN /\ buffer' = "pending"
               /\ handler' = "awaitSharp"
               /\ UNCHANGED res
          ELSE /\ buffer' = "failed"
               /\ handler' = "done"
               /\ res' = GenerateFailed

\* The paint loop that skips the first successful image
Paint_dropFirst ==
    IF Len(successfulImages) = 0
    THEN /\ res' = NoImagesLoaded
         /\ handler' = "done"
         /\ UNCHANGED <<drawCalls, buffer>>
    ELSE /\ drawCalls' = [i \in 1..(Len(successfulImages) - 1) |->
                             DrawCall(successfulImages[i + 1].obj)]
         /\ \E bufferOk \in BOOLEAN :
               IF bufferOk
               THEN /\ buffer' = "pending"
                    /\ handler' = "awaitSharp"
                    /\ UNCHANGED res
               ELSE /\ buffer' = "failed"
                    /\ handler' = "done"
                    /\ res' = GenerateFailed

\* The paint loop that paints the images in the order in which their loads
\* settled
Paint_arrivalOrder ==
    IF Len(successfulImages) = 0
    THEN /\ res' = NoImagesLoaded
         /\ handler' = "done"
         /\ UNCHANGED <<drawCalls, buffer>>
    ELSE /\ drawCalls' =
               LET arrived == SelectSeq(settled, LAMBDA i : imageData[i].state = "success")
               IN  [k \in DOMAIN arrived |-> DrawCall(imageData[arrived[k]].obj)]
         /\ \E bufferOk \in BOOLEAN :
               IF bufferOk
               THEN /\ buffer' = "pending"
                    /\ handler' = "awaitSharp"
                    /\ UNCHANGED res
               ELSE /\ buffer' = "failed"
                    /\ handler' = "done"
                    /\ res' = GenerateFailed

\* The handler from the join to its next await, lines 312-361: the check of
\* successCount, the paint loop in the order of successfulImages, and
\* canvasElement.toBuffer, which gives a buffer or throws
Paint ==
    IF Len(successfulImages) = 0
    THEN /\ res' = NoImagesLoaded
         /\ handler' = "done"
         /\ UNCHANGED <<drawCalls, buffer>>
    ELSE /\ drawCalls' = [i \in DOMAIN successfulImages |-> DrawCall(successfulImages[i].obj)]
         /\ \E bufferOk \in BOOLEAN :
               IF bufferOk
               THEN /\ buffer' = "pending"
                    /\ handler' = "awaitSharp"
                    /\ UNCHANGED res
               ELSE /\ buffer' = "failed"
                    /\ handler' = "done"
                    /\ res' = GenerateFailed

AllSettled ==
    /\ handler = "awaitImages"
    /\ AllLoaded
    /\ Paint
    /\ UNCHANGED <<body, canvasElement, imageData, settled>>
    /\ UNCHANGED <<editorVars, geometry, clientVars>>

\* A handler that sends the raster whatever sharp answers
SharpSettled_sendsAnyway ==
    /\ handler = "awaitSharp"
    /\ \E sharpOk \in BOOLEAN :
          /\ buffer' = IF sharpOk THEN "ok" ELSE "failed"
          /\ res' = RasterSent
    /\ handler' = "done"
    /\ UNCHANGED <<body, canvasElement, imageData, drawCalls, settled>>
    /\ UNCHANGED <<editorVars, geometry, clientVars>>

\* sharp(...).toBuffer() settles, lines 361-379: the raster is sent, or the
\* error is thrown to the catch of line 381
SharpSettled ==
    /\ handler = "awaitSharp"
    /\ \E sharpOk \in BOOLEAN :
          IF sharpOk
          THEN /\ buffer' = "ok"
               /\ res' = RasterSent
          ELSE /\ buffer' = "failed"
               /\ res' = GenerateFailed
    /\ handler' = "done"
    /\ UNCHANGED <<body, canvasElement, imageData, drawCalls, settled>>
    /\ UNCHANGED <<editorVars, geometry, clientVars>>

---------------------------------------------------------------------------
(* The collision functions                                                 *)

\* The largest grid coordinate of a shape, in steps of 12 sheet units
GridMax == 9

\* The first shape of a call: placed near the origin, two widths, turned by
\* a multiple of 90 degrees, plain or mirrored and shrunk
TargetShapes ==
    { [id |-> 1, type |-> "image", x |-> x, y |-> y, width |-> w, height |-> 48,
       rotation |-> r, scaleX |-> sx, scaleY |-> Rat(1, 1),
       src |-> "thumb1", highResSrc |-> "hq1", zIndex |-> 0] :
        x \in {0, 12}, y \in {0, 12}, w \in {48, 96}, r \in {0, 90, 180, 270},
        sx \in {Rat(1, 1), Rat(-1, 2)} }

\* The second shape of a call: an upright square or a smaller rectangle
\* anywhere on the grid
OtherShapes ==
    { [id |-> 2, type |-> "image", x |-> 12 * i, y |-> 12 * j, width |-> w, height |-> w,
       rotation |-> 0, scaleX |-> Rat(1, 1), scaleY |-> Rat(1, 1),
       src |-> "thumb2", highResSrc |-> "hq2", zIndex |-> 1] :
        i \in 0..GridMax, j \in {0, 1, 3, 6, GridMax}, w \in {24, 48} }

\* Math.cos and Math.sin of a multiple of 90 degrees (the source computes
\* them in floating point; they are exact here)
Cos(deg) == CASE deg % 360 = 0 -> 1 [] deg % 360 = 180 -> -1 [] OTHER -> 0
Sin(deg) == CASE deg % 360 = 90 -> 1 [] deg % 360 = 270 -> -1 [] OTHER -> 0

\* getRotatedCorners(obj, buffer), lines 118-143
getRotatedCorners(obj, buf) ==
    LET cos == RatOfInt(Cos(obj.rotation))
        sin == RatOfInt(Sin(obj.rotation))
        w == RatAdd(RatMul(RatOfInt(obj.width), RatAbs(obj.scaleX)), RatMul(buf, RatOfInt(2)))
        h == RatAdd(RatMul(RatOfInt(obj.height), RatAbs(obj.scaleY)), RatMul(buf, RatOfInt(2)))
        ox == RatOfInt(obj.x)
        oy == RatOfInt(obj.y)
        nb == RatSub(RatOfInt(0), buf)
        corners == << [x |-> nb, y |-> nb],
                      [x |-> RatSub(w, buf), y |-> nb],
                      [x |-> RatSub(w, buf), y |-> RatSub(h, buf)],
                      [x |-> nb, y |-> RatSub(h, buf)] >>
    IN  [i \in 1..4 |->
            [x |-> RatAdd(RatSub(RatMul(corners[i].x, cos), RatMul(corners[i].y, sin)), ox),
             y |-> RatAdd(RatAdd(RatMul(corners[i].x, sin), RatMul(corners[i].y, cos)), oy)]]

\* normal.x * p.x + normal.y * p.y, lines 156 and 163
Projected(normal, p) == RatAdd(RatMul(normal.x, p.x), RatMul(normal.y, p.y))

\* The least and the greatest projection of the points of a polygon
MinProjected(normal, poly) ==
    CHOOSE m \in {Projected(normal, poly[i]) : i \in DOMAIN poly} :
        \A i \in DOMAIN poly : ~RatLess(Projected(normal, poly[i]), m)

MaxProjected(normal, poly) ==
    CHOOSE m \in {Projected(normal, poly[i]) : i \in DOMAIN poly} :
        \A i \in DOMAIN poly : ~RatLess(m, Projected(normal, poly[i]))

\* The normal of edge j of a polygon, lines 150-152
EdgeNormal(polygon, j) ==
    LET p1 == polygon[j]
        p2 == polygon[(j % Len(polygon)) + 1]
    IN  [x |-> RatSub(p2.y, p1.y), y |-> RatSub(p1.x, p2.x)]

\* The test of line 168 for one axis: the projections are apart
Separates(normal, a, b) ==
    \/ RatLess(MaxProjected(normal, a), MinProjected(normal, b))
    \/ RatLess(MaxProjected(normal, b), MinProjected(normal, a))

\* doPolygonsIntersect that looks at the first edge of the first polygon only
doPolygonsIntersect_firstEdge(a, b) == ~Separates(EdgeNormal(a, 1), a, b)

\* doPolygonsIntersect(a, b), lines 145-172
doPolygonsIntersect(a, b) ==
    \A polygon \in {a, b} : \A j \in DOMAIN polygon : ~Separates(EdgeNormal(polygon, j), a, b)

\* buffer of checkOverlap, line 408
OverlapBuffer == Rat(PPI, 4)

\* checkOverlap(target, potentialObjects), lines 404-420
checkOverlap(target, objList) ==
    IF Len(objList) <= 1 THEN FALSE
    ELSE \E i \in DOMAIN objList :
            /\ objList[i].id # target.id
            /\ doPolygonsIntersect(getRotatedCorners(target, OverlapBuffer),
                                   getRotatedCorners(objList[i], OverlapBuffer))

\* A call of getRotatedCorners without buffer
CornersCall ==
    /\ geometry = NotCalled
    /\ \E obj \in TargetShapes :
          geometry' = [op |-> "getRotatedCorners", obj |-> obj,
                       result |-> getRotatedCorners(obj, RatOfInt(0))]
    /\ UNCHANGED <<editorVars, exportVars, clientVars>>

\* A call of doPolygonsIntersect on the corners of two shapes
IntersectCall ==
    /\ geometry = NotCalled
    /\ \E a \in TargetShapes, b \in OtherShapes :
          geometry' = [op |-> "doPolygonsIntersect", a |-> a, b |-> b,
                       result |-> doPolygonsIntersect(getRotatedCorners(a, RatOfInt(0)),
                                                      getRotatedCorners(b, RatOfInt(0)))]
    /\ UNCHANGED <<editorVars, exportVars, clientVars>>

\* A call of checkOverlap for the first of two shapes on the sheet
CheckOverlapCall ==
    /\ geometry = NotCalled
    /\ \E a \in TargetShapes, b \in OtherShapes :
          geometry' = [op |-> "checkOverlap", a |-> a, b |-> b,
                       result |-> checkOverlap(a, <<a, b>>)]
    /\ UNCHANGED <<editorVars, exportVars, clientVars>>

\* The corners of the region one pass of the paint loop covers, server.js
\* lines 339-341: the origin is moved to the center of the destination
\* rectangle, turned by rotation, and the image is drawn on
\* (-width/2, -height/2, width, height)
PaintedCorners(call) ==
    LET cos == RatOfInt(Cos(call.rotation))
        sin == RatOfInt(Sin(call.rotation))
        hw == RatDiv(call.width, RatOfInt(2))
        hh == RatDiv(call.height, RatOfInt(2))
        cx == RatAdd(call.x, hw)
        cy == RatAdd(call.y, hh)
        nhw == RatSub(RatOfInt(0), hw)
        nhh == RatSub(RatOfInt(0), hh)
        corners == << [x |-> nhw, y |-> nhh], [x |-> hw, y |-> nhh],
                      [x |-> hw, y |-> hh], [x |-> nhw, y |-> hh] >>
    IN  [i \in 1..4 |->
            [x |-> RatAdd(RatSub(RatMul(corners[i].x, cos), RatMul(corners[i].y, sin)), cx),
             y |-> RatAdd(RatAdd(RatMul(corners[i].x, sin), RatMul(corners[i].y, cos)), cy)]]

\* One pass of the paint loop of the export for a shape of the sheet
PaintCall ==
    /\ geometry = NotCalled
    /\ \E obj \in TargetShapes :
          geometry' = [op |-> "drawImage", obj |-> obj,
                       result |-> PaintedCorners(DrawCall(obj))]
    /\ UNCHANGED <<editorVars, exportVars, clientVars>>

---------------------------------------------------------------------------
(* Specification                                                           *)

Next ==
    \/ AddToCanvas
    \/ HandleDelete
    \/ DeleteSingle
    \/ HandleDuplicate
    \/ Undo
    \/ Redo
    \/ StageMouseDownEmpty
    \/ StageMouseDownObject
    \/ MouseMove
    \/ MouseUp
    \/ DragStart
    \/ DragMove
    \/ DragEnd
    \/ TransformStart
    \/ TransformMove
    \/ TransformEnd
    \/ FocusInput
    \/ TypeSize
    \/ BlurInput
    \/ LoadComplete
    \/ LoadFail

Spec == Init /\ [][Next]_vars

\* The editor opened on a saved design of two objects: adding, selecting by
\* click, dragging and transforming objects, undo and redo
LoadCompleteSheet == LoadArrives(SavedSheets)

DragNext ==
    \/ LoadCompleteSheet
    \/ LoadFail
    \/ AddToCanvas
    \/ Undo
    \/ Redo
    \/ StageMouseDownObject
    \/ MouseUp
    \/ DragStart
    \/ DragMove
    \/ DragEnd
    \/ TransformStart
    \/ TransformMove
    \/ TransformEnd

DragSpec == Init /\ [][DragNext]_vars

\* The editor opened on a saved design of three objects: adding, selecting
\* by click, deleting and duplicating objects, undo and redo
LoadCompleteLayers == LoadArrives(LayerSheets)

LayerNext ==
    \/ LoadCompleteLayers
    \/ LoadFail
    \/ AddToCanvas
    \/ HandleDelete
    \/ DeleteSingle
    \/ HandleDuplicate
    \/ Undo
    \/ Redo
    \/ StageMouseDownObject
    \/ MouseUp

LayerSpec == Init /\ [][LayerNext]_vars

\* The editor with its asset library: files are dropped, their two callbacks
\* run in any order, entries are removed and placed on the sheet
UploadInit == Init /\ load = "settled"

UploadNext ==
    \/ ProcessFile
    \/ ImageOnload
    \/ ImageError
    \/ UploadResponds
    \/ UploadFails
    \/ HandleDeleteUpload
    \/ AddFromGallery
    \/ StageMouseDownObject
    \/ MouseUp
    \/ HandleDelete
    \/ Undo
    \/ Redo

UploadSpec == UploadInit /\ [][UploadNext]_vars

\* The editor with its export button: objects are added, selected and
\* deleted, changes are undone and redone, while exports are started and
\* come to their end
ButtonNext ==
    \/ AddToCanvas
    \/ HandleDelete
    \/ Undo
    \/ Redo
    \/ StageMouseDownObject
    \/ MouseUp
    \/ HandleExport
    \/ ExportFetchSettles
    \/ ExportBodySettles

ButtonSpec == UploadInit /\ [][ButtonNext]_vars

\* The same under a network and a scheduler that let the request and the
\* read of the response body settle
ButtonFairSpec ==
    /\ UploadInit
    /\ [][ButtonNext]_vars
    /\ WF_vars(ExportFetchSettles)
    /\ WF_vars(ExportBodySettles)

\* The export endpoint handling one request, started in the initial state
ExportInit == Init /\ load = "settled"

ExportNext ==
    \/ ExportRequest
    \/ LoadSucceeds
    \/ LoadFails
    \/ AllSettled
    \/ SharpSettled

ExportSpec == ExportInit /\ [][ExportNext]_vars

\* The export endpoint under a scheduler that lets every load settle (each
\* has the timeouts of lines 275 and 291) and runs every continuation
ExportFairSpec ==
    /\ ExportInit
    /\ [][ExportNext]_vars
    /\ WF_vars(LoadSucceeds \/ LoadFails)
    /\ WF_vars(AllSettled)
    /\ WF_vars(SharpSettled)

\* The collision functions called on shapes of the grid
GeometryInit == Init /\ load = "settled"

GeometryNext ==
    \/ CornersCall
    \/ IntersectCall
    \/ CheckOverlapCall
    \/ PaintCall

GeometrySpec == GeometryInit /\ [][GeometryNext]_vars

---------------------------------------------------------------------------
(* Properties                                                              *)

\* The handlers that call saveHistory
CommitOps == {"addToCanvas", "handleDelete", "deleteSingle", "handleDuplicate",
              "onDragEnd", "onTransformEnd", "handleBlur"}

\* The fields of a DesignObject (interface, lines 72-85)
ObjectFields == {"id", "type", "x", "y", "width", "height", "rotation",
                 "scaleX", "scaleY", "src", "highResSrc", "zIndex"}

\* C1: in every reachable state the history cursor is the index of an entry:
\* 0 <= historyStep < history.length.
C1_CursorInRange == 0 <= historyStep /\ historyStep < Len(history)

\* C2: in every reachable state the live object list is the history entry at
\* the cursor, so that no handler changes the list without a commit, an undo
\* or a redo.
C2_LiveListIsEntryAtCursor ==
    /\ historyStep < Len(history)
    /\ objects = history[historyStep + 1]

\* C3: every commit, from any state, leaves the entries 0..cursor in place,
\* puts the new list right after them as the last entry, advances the cursor
\* by one to that entry and makes the new list the live list.
C3_CommitEffect ==
    [][lastOp' \in CommitOps =>
          /\ historyStep' = historyStep + 1
          /\ Len(history') = historyStep + 2
          /\ historyStep' = Len(history') - 1
          /\ \A i \in 1..(historyStep + 1) : i <= Len(history) /\ history'[i] = history[i]
          /\ history'[Len(history')] = objects']_vars

\* C4: a step that makes the history shorter or removes an entry beyond the
\* cursor is a commit.
C4_OnlyCommitDiscards ==
    [][(\/ Len(history') < Len(history)
        \/ \E i \in (historyStep + 2)..Len(history) :
              ~(i <= Len(history') /\ history'[i] = history[i]))
       => lastOp' \in CommitOps]_vars

\* C5: undo with cursor > 0 decrements the cursor, makes the entry before the
\* cursor the live list and leaves the entries alone; undo with cursor 0
\* changes neither entries, cursor nor live list.
C5_UndoEffect ==
    [][lastOp' = "undo" =>
          IF historyStep > 0
          THEN /\ historyStep' = historyStep - 1
               /\ historyStep - 1 < Len(history)
               /\ objects' = history[historyStep]
               /\ history' = history
          ELSE UNCHANGED <<history, historyStep, objects>>]_vars

\* C6: redo with the cursor before the last entry increments the cursor, makes
\* the entry after the cursor the live list and leaves the entries alone;
\* redo with the cursor at (or beyond) the last entry changes neither entries,
\* cursor nor live list.
C6_RedoEffect ==
    [][lastOp' = "redo" =>
          IF historyStep < Len(history) - 1
          THEN /\ historyStep' = historyStep + 1
               /\ objects' = history[historyStep + 2]
               /\ history' = history
          ELSE UNCHANGED <<history, historyStep, objects>>]_vars

\* a redo has moved the cursor from entry 0 to entry 1
C6_Witness ==
    /\ lastOp = "redo"
    /\ run.phase = "redos"
    /\ run.r = 1
    /\ historyStep = 1
    /\ objects = history[2]

\* C7: from the initial history, after n commits of distinct lists, n undos
\* leave the live list empty and n redos after them leave it equal to the
\* n-th committed list.
C7_UndoRedoRoundTrip ==
    /\ (run.phase \in {"commits", "undos"} /\ run.distinct /\ run.k = run.n)
          => objects = <<>>
    /\ (run.phase = "redos" /\ run.distinct /\ run.r = run.n)
          => objects = run.last

\* two distinct lists were committed, undone twice and redone twice
C7_Witness ==
    /\ lastOp = "redo"
    /\ run.phase = "redos"
    /\ run.distinct
    /\ run.n = 2
    /\ run.r = 2
    /\ objects # <<>>

\* A commit that follows n >= 1 commits and k < n undos of a run from the
\* initial history
RecommitStep ==
    /\ run.phase \in {"commits", "undos"}
    /\ run.n >= 1
    /\ run.k < run.n
    /\ lastOp' \in CommitOps

\* A redo right after a commit of such a run
RedoAfterCommitStep ==
    /\ run.phase \in {"commits", "recommit"}
    /\ lastOp \in CommitOps
    /\ lastOp' = "redo"

\* C8 as stated: after n commits and k < n undos a further commit discards
\* exactly n - k entries, and a redo right after that commit changes nothing.
C8_DiscardsNMinusK ==
    [][/\ RecommitStep => Len(history) - (Len(history') - 1) = run.n - run.k
       /\ RedoAfterCommitStep => UNCHANGED <<history, historyStep, objects>>]_vars

\* C8 amended: after n commits and k < n undos a further commit discards
\* exactly the k entries beyond the cursor (the entries up to the cursor stay
\* and the new list follows them), and a redo right after that commit changes
\* nothing.
C8_DiscardsK ==
    [][/\ RecommitStep =>
             /\ Len(history) - (Len(history') - 1) = run.k
             /\ Len(history') = run.n - run.k + 2
             /\ \A i \in 1..(run.n - run.k + 1) : history'[i] = history[i]
       /\ RedoAfterCommitStep => UNCHANGED <<history, historyStep, objects>>]_vars

\* two commits, one undo, a commit that discarded the undone entry, a redo
C8_Witness ==
    /\ run.phase = "redoAfter"
    /\ run.n = 2
    /\ run.k = 1
    /\ lastOp = "redo"
    /\ Len(history) = 3
    /\ historyStep = 2

\* C9: after an undo or a redo that moves the cursor the selection is empty,
\* and the objects of every history entry have the fields of a DesignObject
\* only, so no entry holds a selection.
C9_SelectionNotInHistory ==
    [][/\ (lastOp' \in {"undo", "redo"} /\ historyStep' # historyStep)
             => selectedIds' = <<>>
       /\ \A i \in DOMAIN history' : \A j \in DOMAIN history'[i] :
             DOMAIN history'[i][j] = ObjectFields]_vars

\* an undo has moved the cursor away from a commit that selected an object
C9_Witness ==
    /\ lastOp = "undo"
    /\ run.phase = "undos"
    /\ run.k = 1
    /\ historyStep = 0
    /\ Len(history) = 2
    /\ history[2] # <<>>
    /\ selectedIds = <<>>

\* C10: the start and the moves of a drag or transform gesture leave history
\* and cursor alone, and the end of the gesture appends one entry and
\* advances the cursor by exactly one.
C10_OneCommitPerGesture ==
    [][/\ gesture'.kind \in {"dragging", "transforming"}
             => (history' = history /\ historyStep' = historyStep)
       /\ (gesture.kind \in {"dragging", "transforming"} /\ gesture'.kind = "idle")
             => /\ historyStep' = historyStep + 1
                /\ Len(history') = historyStep + 2]_vars

---------------------------------------------------------------------------
(* Properties of dragging a group of objects (DragSpec)                    *)

\* The object with the given id is being dragged together with the others
\* of a selection of two or more
MultiDrag(id) ==
    /\ gesture = [kind |-> "dragging", id |-> id]
    /\ Includes(selectedIds, id)
    /\ Len(selectedIds) > 1

\* C11: during the drag of an object that is one of two or more selected,
\* from the start of the gesture and after every move event, each selected
\* object on the stage stands at the position recorded for it when the
\* gesture started plus the distance the dragged object is away from its own
\* recorded position.
C11_LockstepDuringDrag ==
    MultiDrag(gesture.id) =>
        \A s \in Range(selectedIds) \cap DOMAIN nodes :
            /\ s \in DOMAIN dragStartAttrs
            /\ gesture.id \in DOMAIN dragStartAttrs
            /\ nodes[s].x = dragStartAttrs[s].x
                              + (nodes[gesture.id].x - dragStartAttrs[gesture.id].x)
            /\ nodes[s].y = dragStartAttrs[s].y
                              + (nodes[gesture.id].y - dragStartAttrs[gesture.id].y)

\* Two selected objects in a drag, the dragged one away from where it
\* started and the other one moved along
C11_Witness ==
    /\ MultiDrag(gesture.id)
    /\ gesture.id \in DOMAIN dragStartAttrs
    /\ gesture.id \in DOMAIN nodes
    /\ nodes[gesture.id].x # dragStartAttrs[gesture.id].x
    /\ \E s \in Range(selectedIds) \cap DOMAIN nodes :
          /\ s # gesture.id
          /\ s \in DOMAIN dragStartAttrs
          /\ nodes[s].x # dragStartAttrs[s].x

---------------------------------------------------------------------------
(* Properties of object identity (Spec)                                    *)

\* The object lists of a state: the history entries and the live list
Lists(h, objs) == Range(h) \cup (IF objs = Undefined THEN {} ELSE {objs})

\* Wherever the two lists hold an object of the same id, it has the same
\* width and height
SameSize(l1, l2) ==
    \A i \in DOMAIN l1, j \in DOMAIN l2 :
        l1[i].id = l2[j].id =>
            /\ l1[i].width = l2[j].width
            /\ l1[i].height = l2[j].height

\* C13: width and height of an object never change after its creation: in
\* every step, an id carries the same width and height in all history
\* entries and live lists of the state before and of the state after,
\* whatever the step is (drag end, transform end, size field, undo, redo).
C13_SizeNeverChanges ==
    [][\A l1 \in Lists(history, objects) \cup Lists(history', objects'),
          l2 \in Lists(history', objects') : SameSize(l1, l2)]_vars

\* An undo has brought back a list in which an object has another scale
\* than in a later history entry, after a transform or a size edit
C13_Witness ==
    /\ lastOp = "undo"
    /\ ~Crashed
    /\ \E l \in Range(history), i \in DOMAIN objects : \E j \in DOMAIN l :
          /\ objects[i].id = l[j].id
          /\ objects[i].scaleX # l[j].scaleX
          /\ objects[i].width = l[j].width

\* No two places of the list hold the same id
DistinctIds(l) == \A i, j \in DOMAIN l : i # j => l[i].id # l[j].id

\* C14: the ids of the live list and of every history entry are pairwise
\* distinct, and addObject for an object whose id is in the live list
\* cannot change objects, history, cursor or selection.
C14_IdsDistinct ==
    /\ \A l \in Lists(history, objects) : DistinctIds(l)
    /\ ~Crashed =>
          \A id \in Ids(objects), file \in FinishedUploads :
              ~ENABLED (/\ addObject(NewObject(file, id))
                        /\ <<objects, history, historyStep, selectedIds>>'
                              # <<objects, history, historyStep, selectedIds>>)

\* A redo has brought back a list that holds an object and its duplicate
C14_Witness ==
    /\ lastOp = "redo"
    /\ ~Crashed
    /\ Len(objects) = 2
    /\ objects[2].x = objects[1].x + OFFSET
    /\ objects[2].id # objects[1].id

---------------------------------------------------------------------------
(* Properties of the export endpoint (ExportSpec)                          *)

\* The ids of the image objects whose load succeeded
LoadedIds == {imageData[i].obj.id : i \in {j \in DOMAIN imageData : imageData[j].state = "success"}}

\* The ids of the images drawn on the canvas
DrawnIds == {drawCalls[i].id : i \in DOMAIN drawCalls}

\* The handler is past the join of the image loads
PastJoin == handler \in {"awaitSharp", "done"} /\ imageData # <<>>

\* C15: a failed load does not abort the others.  Once the loads of a
\* request have all settled and at least one succeeded, the canvas holds one
\* drawImage call for each image that loaded and none for any other, the
\* response is never the load error, and the raster is sent unless producing
\* the buffer itself failed.
C15_PartialFailureProceeds ==
    (PastJoin /\ LoadedIds # {}) =>
        /\ DrawnIds = LoadedIds
        /\ Len(drawCalls) = Cardinality(LoadedIds)
        /\ res # NoImagesLoaded
        /\ (handler = "done" /\ buffer # "failed") => res = RasterSent

\* Three image objects, exactly one load failed, and the raster was sent
C15_Witness ==
    /\ Len(imageData) = 3
    /\ Cardinality({i \in DOMAIN imageData : imageData[i].state = "failed"}) = 1
    /\ Cardinality(LoadedIds) = 2
    /\ res = RasterSent

\* C16: when no image loads, the export answers with an error and sends no
\* raster: nothing is drawn, no buffer is made, the response is the explicit
\* load error.
C16_TotalFailureFails ==
    (PastJoin /\ LoadedIds = {}) =>
        /\ drawCalls = <<>>
        /\ buffer = "none"
        /\ res = NoImagesLoaded
        /\ res.status = 500

\* Two image objects whose loads both failed, and the error response sent
C16_Witness ==
    /\ Len(imageData) = 2
    /\ \A i \in DOMAIN imageData : imageData[i].state = "failed"
    /\ handler = "done"
    /\ res.status = 500

\* C17: the paint phase never starts while a load of the request is
\* pending: a step that draws on the canvas starts from a state in which
\* every load has settled, draws the images one after the other in a single
\* run of the handler, and no load result changes afterwards.
C17_PaintAfterJoin ==
    [][/\ drawCalls' # drawCalls =>
            /\ \A i \in DOMAIN imageData : imageData[i].state # "pending"
            /\ imageData' = imageData
            /\ drawCalls = <<>>
       /\ drawCalls # <<>> => imageData' = imageData]_vars

\* The canvas was painted for a request of which one load succeeded after
\* another had failed
C17_Witness ==
    /\ drawCalls # <<>>
    /\ Len(imageData) >= 2
    /\ \E i \in DOMAIN imageData : imageData[i].state = "failed"

\* C18: a request without size, without an object list, with an object list
\* that is not a list or is empty, or with no image object is answered with
\* a validation error (400) before any load starts and before the canvas is
\* allocated or painted.
C18_ValidationBeforeWork ==
    res.status = 400 =>
        /\ canvasElement = NoCanvas
        /\ imageData = <<>>
        /\ drawCalls = <<>>

\* C19: the response of a successful export carries the number of objects
\* that succeeded and the number skipped, which add up to the number of
\* image objects of the request.
C19_ResponseCarriesMetrics ==
    res.status = 200 =>
        /\ {"succeeded", "skipped"} \subseteq DOMAIN res
        /\ res.succeeded = Cardinality(LoadedIds)
        /\ res.succeeded + res.skipped = Len(imageData)

\* Position of the object with the given id in the object list of the request
ListIndex(id) == CHOOSE i \in DOMAIN body.objects.list : body.objects.list[i].id = id

\* zIndex of the object with the given id in the request
ZIndexOf(id) == body.objects.list[ListIndex(id)].zIndex

\* C20: the images are painted in ascending zIndex, images of equal zIndex
\* in list order.
C20_PaintInZOrder ==
    \A i, j \in DOMAIN drawCalls :
        i < j =>
            \/ ZIndexOf(drawCalls[i].id) < ZIndexOf(drawCalls[j].id)
            \/ /\ ZIndexOf(drawCalls[i].id) = ZIndexOf(drawCalls[j].id)
               /\ ListIndex(drawCalls[i].id) < ListIndex(drawCalls[j].id)

\* The object of the request that a drawImage call paints
DrawnObject(i) == body.objects.list[ListIndex(drawCalls[i].id)]

\* C21: every painted object has the destination rectangle (x*S, y*S,
\* width*S*|scaleX|, height*S*|scaleY|) with S = 300/96: width and height
\* are not negative and use the absolute value of the scale; width 96 at
\* scale 1 gives 300 pixels.
C21_DestRectUsesAbsScale ==
    \A i \in DOMAIN drawCalls :
        LET o == DrawnObject(i)
            S == Rat(300, 96)
        IN  /\ drawCalls[i].x = RatMul(RatOfInt(o.x), S)
            /\ drawCalls[i].y = RatMul(RatOfInt(o.y), S)
            /\ drawCalls[i].width = RatMul(RatMul(RatOfInt(o.width), S), RatAbs(o.scaleX))
            /\ drawCalls[i].height = RatMul(RatMul(RatOfInt(o.height), S), RatAbs(o.scaleY))
            /\ ~RatLess(drawCalls[i].width, RatOfInt(0))
            /\ ~RatLess(drawCalls[i].height, RatOfInt(0))
            /\ (o.width = 96 /\ o.scaleX = Rat(1, 1)) => drawCalls[i].width = RatOfInt(300)

\* C22: the asset loaded for an image object is highResSrc when the object
\* has one and src otherwise; an object with neither gets no load, is not
\* painted, and the images that loaded are painted all the same.
C22_BestAssetResolved ==
    /\ imageData # <<>> =>
          /\ Len(imageData) = Len(imageObjects(body.objects.list))
          /\ \A i \in DOMAIN imageData :
                LET o == imageObjects(body.objects.list)[i] IN
                /\ imageData[i].obj = o
                /\ o.highResSrc # NoSrc => imageData[i].url = o.highResSrc
                /\ (o.highResSrc = NoSrc /\ o.src # NoSrc) => imageData[i].url = o.src
                /\ (o.highResSrc = NoSrc /\ o.src = NoSrc) =>
                      /\ imageData[i].state = "null"
                      /\ o.id \notin DrawnIds
                /\ (o.highResSrc # NoSrc \/ o.src # NoSrc) => imageData[i].state # "null"
    /\ (PastJoin /\ LoadedIds # {}) => DrawnIds = LoadedIds

\* The raster was sent for a request with an object without any source, an
\* object loaded from its thumbnail and an object loaded from highResSrc
C22_Witness ==
    /\ res = RasterSent
    /\ \E i \in DOMAIN imageData : imageData[i].state = "null"
    /\ \E i \in DOMAIN imageData :
          /\ imageData[i].state = "success"
          /\ imageData[i].url = imageData[i].obj.src
    /\ \E i \in DOMAIN imageData :
          /\ imageData[i].state = "success"
          /\ imageData[i].url = imageData[i].obj.highResSrc

\* C23: when making the buffer fails (toBuffer or sharp throws or gives an
\* empty buffer), the request is answered with an error and the raster is
\* not sent, also when every image loaded.
C23_EncodeFailureIsFatal ==
    buffer = "failed" =>
        /\ handler = "done"
        /\ res = GenerateFailed
        /\ res.status = 500

\* Two images loaded and were painted, and making the buffer failed
C23_Witness ==
    /\ buffer = "failed"
    /\ Len(imageData) = 2
    /\ \A i \in DOMAIN imageData : imageData[i].state = "success"
    /\ Len(drawCalls) = 2

\* The responses of the handler
Responses == {MissingData, NoObjects, NoImageObjects, NoImagesLoaded, GenerateFailed,
              RasterSent}

\* C24: every request is answered exactly once: a request being handled
\* leads to a response, the response is one of the validation errors, the
\* load error, the buffer error or the raster, and once sent it is not
\* followed by another one.
C24_ExactlyOneResponse ==
    /\ [](res \in Responses \cup {NoResponse})
    /\ [][res # NoResponse => res' = res]_vars
    /\ (handler # "idle") ~> (res \in Responses)

\* The raster was sent for a request of two images of which one load
\* failed (or ran into its timeout)
C24_Witness ==
    /\ res = RasterSent
    /\ Len(imageData) = 2
    /\ \E i \in DOMAIN imageData : imageData[i].state = "failed"

---------------------------------------------------------------------------
(* Properties of selection (Spec)                                          *)

\* The pointer can go down on an object
CanClick == ~Crashed /\ gesture = Idle /\ ~isFocused

\* C25: a pointer-down without modifier key on an object o makes the
\* selection <<o>>, whatever it was before.
C25_PlainClickSelectsOnly ==
    CanClick =>
        \A o \in DOMAIN nodes :
            ~ENABLED (clickObject(o, FALSE) /\ selectedIds' # <<o>>)

\* C26: a pointer-down with a modifier key on an object o removes o from
\* the selection when it was selected and appends it when it was not; the
\* other selected ids stay, in their order.
C26_ModifierClickToggles ==
    CanClick =>
        \A o \in DOMAIN nodes :
            ~ENABLED (/\ clickObject(o, TRUE)
                      /\ ~ (IF \E i \in DOMAIN selectedIds : selectedIds[i] = o
                            THEN /\ \A i \in DOMAIN selectedIds' : selectedIds'[i] # o
                                 /\ selectedIds' = SelectSeq(selectedIds, LAMBDA id : id # o)
                            ELSE selectedIds' = selectedIds \o <<o>>))

\* The pointer is down on an object that a modifier click has just taken
\* out of a selection of two or more
C26_Witness ==
    /\ gesture.kind = "pressed"
    /\ Len(selectedIds) >= 1
    /\ \A i \in DOMAIN selectedIds : selectedIds[i] # gesture.id
    /\ gesture.id \in DOMAIN nodes

\* C27: the release of a marquee makes the selection exactly the objects
\* whose un-rotated box (x, y, width*scaleX, height*scaleY) intersects the
\* marquee, also when there is none and when the marquee was started with a
\* modifier key.
C27_MarqueeSelectsIntersecting ==
    [][(gesture.kind = "marquee" /\ gesture' = Idle /\ selectionBox # NoBox) =>
          Range(selectedIds') =
              {objects[i].id : i \in {j \in DOMAIN objects : InMarquee(selectionBox, objects[j])}}]_vars

---------------------------------------------------------------------------
(* Properties of the collision functions (GeometrySpec)                    *)

\* Size of a shape on the sheet: width * |scaleX| and height * |scaleY|
ShapeW(obj) == RatMul(RatOfInt(obj.width), RatAbs(obj.scaleX))
ShapeH(obj) == RatMul(RatOfInt(obj.height), RatAbs(obj.scaleY))

Half(r) == RatDiv(r, RatOfInt(2))

\* Twice the signed area of a polygon of four corners: its sign is the winding
Winding(c) ==
    LET cross(i, j) == RatSub(RatMul(c[i].x, c[j].y), RatMul(c[j].x, c[i].y))
    IN  RatAdd(RatAdd(cross(1, 2), cross(2, 3)), RatAdd(cross(3, 4), cross(4, 1)))

\* C28: for a rotation of 0, 90, 180 or 270 degrees and no buffer the
\* corners returned are those of the axis-aligned rectangle centered at
\* (x + w/2, y + h/2), of size w by h (h by w after a quarter turn), where
\* w = width*|scaleX| and h = height*|scaleY|, always in the same winding.
C28_CornersAboutCenter ==
    geometry.op = "getRotatedCorners" =>
        LET obj == geometry.obj
            cx == RatAdd(RatOfInt(obj.x), Half(ShapeW(obj)))
            cy == RatAdd(RatOfInt(obj.y), Half(ShapeH(obj)))
            upright == obj.rotation \in {0, 180}
            hw == IF upright THEN Half(ShapeW(obj)) ELSE Half(ShapeH(obj))
            hh == IF upright THEN Half(ShapeH(obj)) ELSE Half(ShapeW(obj))
        IN  /\ {geometry.result[i] : i \in 1..4} =
                  { [x |-> RatSub(cx, hw), y |-> RatSub(cy, hh)],
                    [x |-> RatAdd(cx, hw), y |-> RatSub(cy, hh)],
                    [x |-> RatAdd(cx, hw), y |-> RatAdd(cy, hh)],
                    [x |-> RatSub(cx, hw), y |-> RatAdd(cy, hh)] }
            /\ RatLess(RatOfInt(0), Winding(geometry.result))

\* The closed ranges [a1, a2] and [b1, b2] have a point in common
RangesIntersect(a1, a2, b1, b2) == ~RatLess(a2, b1) /\ ~RatLess(b2, a1)

\* C29: for two unrotated rectangles the intersection test answers true
\* exactly when their x-ranges have a point in common and their y-ranges
\* have a point in common (rectangles that touch or lie in one another
\* included).
C29_OverlapIsIntervalTest ==
    (geometry.op = "doPolygonsIntersect" /\ geometry.a.rotation = 0 /\ geometry.b.rotation = 0) =>
        LET a == geometry.a
            b == geometry.b
            ax == RatOfInt(a.x)
            ay == RatOfInt(a.y)
            bx == RatOfInt(b.x)
            by == RatOfInt(b.y)
        IN  geometry.result =
               (/\ RangesIntersect(ax, RatAdd(ax, ShapeW(a)), bx, RatAdd(bx, ShapeW(b)))
                /\ RangesIntersect(ay, RatAdd(ay, ShapeH(a)), by, RatAdd(by, ShapeH(b))))

\* The test has answered true for two unrotated rectangles that touch along
\* an edge
C29_Witness ==
    /\ geometry.op = "doPolygonsIntersect"
    /\ geometry.a.rotation = 0
    /\ RatAdd(RatOfInt(geometry.a.x), ShapeW(geometry.a)) = RatOfInt(geometry.b.x)
    /\ geometry.result = TRUE

\* The test has answered true for a rectangle strictly inside another one
Nested ==
    /\ geometry.op = "doPolygonsIntersect"
    /\ geometry.a.rotation = 0
    /\ geometry.a.x < geometry.b.x
    /\ geometry.a.y < geometry.b.y
    /\ RatLess(RatOfInt(geometry.b.x + geometry.b.width), RatAdd(RatOfInt(geometry.a.x), ShapeW(geometry.a)))
    /\ RatLess(RatOfInt(geometry.b.y + geometry.b.height), RatAdd(RatOfInt(geometry.a.y), ShapeH(geometry.a)))
    /\ geometry.result = TRUE

\* The free space between the closed ranges [a1, a2] and [b1, b2] (negative
\* when they overlap)
Gap(a1, a2, b1, b2) ==
    IF RatLess(RatSub(b1, a2), RatSub(a1, b2)) THEN RatSub(a1, b2) ELSE RatSub(b1, a2)

\* C30: checkOverlap, whose buffer is a quarter inch (24 sheet units),
\* answers false for two unrotated rectangles that are more than the buffer
\* apart along the x axis or along the y axis.
C30_NoOverlapBeyondBuffer ==
    (geometry.op = "checkOverlap" /\ geometry.a.rotation = 0 /\ geometry.b.rotation = 0) =>
        LET a == geometry.a
            b == geometry.b
            ax == RatOfInt(a.x)
            ay == RatOfInt(a.y)
            bx == RatOfInt(b.x)
            by == RatOfInt(b.y)
            gapX == Gap(ax, RatAdd(ax, ShapeW(a)), bx, RatAdd(bx, ShapeW(b)))
            gapY == Gap(ay, RatAdd(ay, ShapeH(a)), by, RatAdd(by, ShapeH(b)))
        IN  (RatLess(RatOfInt(24), gapX) \/ RatLess(RatOfInt(24), gapY)) =>
               geometry.result = FALSE

---------------------------------------------------------------------------
(* Properties of the order of painting (ExportSpec)                        *)

\* The drawImage calls for a list of objects of which the images in loaded
\* were loaded: one call per loaded image object, in the order of the list
ExpectedDrawCalls(list, loaded) ==
    LET painted == SelectSeq(list, LAMBDA obj : obj.type = "image" /\ obj.id \in loaded)
    IN  [k \in DOMAIN painted |-> DrawCall(painted[k])]

\* C35: the sequence of objects painted is given by the request and by the
\* set of images that loaded alone; it is the same for every order in which
\* the concurrent loads settle.
C35_PaintOrderIgnoresArrival ==
    PastJoin => drawCalls = ExpectedDrawCalls(body.objects.list, LoadedIds)

\* Two images were painted in the order of the list though the load of the
\* second one settled before the load of the first one
C35_Witness ==
    /\ res = RasterSent
    /\ Len(drawCalls) = 2
    /\ Len(settled) >= 2
    /\ \E i, j \in DOMAIN settled :
          /\ i < j
          /\ settled[j] < settled[i]
          /\ imageData[settled[i]].state = "success"
          /\ imageData[settled[j]].state = "success"

---------------------------------------------------------------------------
(* Properties of the object list (Spec, LayerSpec)                         *)

\* zIndex does not decrease along a list
Layered(l) == \A i, j \in DOMAIN l : i < j => l[i].zIndex <= l[j].zIndex

\* C33: zIndex does not decrease along the live object list, so that the
\* order of the list and the order of zIndex agree.
C33_ZIndexFollowsList ==
    ~Crashed => Layered(objects)

\* C34: every selected id is the id of an object of the live list.
C34_SelectionIsLive ==
    ~Crashed => \A i \in DOMAIN selectedIds : selectedIds[i] \in Ids(objects)

---------------------------------------------------------------------------
(* Properties of the size fields (Spec)                                    *)

\* C38: a keystroke in a size field leaves history and cursor alone; leaving
\* the field adds exactly one entry when the list was changed since the
\* entry at the cursor, and leaves history and cursor (and so the entries
\* to redo) unchanged when it was not.
C38_OneEntryPerEdit ==
    [][/\ lastOp' = "handleChange" => UNCHANGED <<history, historyStep>>
       /\ (isFocused /\ ~isFocused' /\ lastOp' = "handleBlur" /\ historyStep < Len(history)) =>
             IF objects = At(history, historyStep)
             THEN UNCHANGED <<history, historyStep>>
             ELSE /\ historyStep' = historyStep + 1
                  /\ Len(history') = historyStep + 2]_vars

---------------------------------------------------------------------------
(* Properties of editor and export together (GeometrySpec)                 *)

\* A point of the sheet in the pixels of the export
Scaled(p) == [x |-> RatMul(p.x, Rat(300, 96)), y |-> RatMul(p.y, Rat(300, 96))]

\* C36: for an object of positive scale turned by a multiple of 90 degrees
\* the region the export paints is 300/96 times the region of the editor's
\* getRotatedCorners(object, 0): the same rectangle, turned about the same
\* point.
C36_ExportMatchesEditor ==
    (/\ geometry.op = "drawImage"
     /\ RatLess(RatOfInt(0), geometry.obj.scaleX)
     /\ RatLess(RatOfInt(0), geometry.obj.scaleY)) =>
        {geometry.result[i] : i \in 1..4} =
            {Scaled(getRotatedCorners(geometry.obj, RatOfInt(0))[i]) : i \in 1..4}

---------------------------------------------------------------------------
(* Properties of the asset library (UploadSpec)                            *)

\* Width and height are positive and no scale is zero
WellFormed(obj) ==
    /\ obj.width > 0
    /\ obj.height > 0
    /\ obj.scaleX.n # 0
    /\ obj.scaleY.n # 0

\* C31: no object of width or height 0 or less, or of scale 0, is in the
\* live list or in an entry of the history.
C31_NoDegenerateObject ==
    \A l \in Lists(history, objects) : \A i \in DOMAIN l : WellFormed(l[i])

\* C32: once the two callbacks of an upload have run (the image event and
\* the continuation of the upload request), in whichever order, the entry
\* of the file is gone from the gallery or has isUploading = FALSE: no entry
\* is left in the uploading state with nothing to come that ends it.
C32_UploadSettles ==
    \A tempId \in DOMAIN uploads :
        (uploads[tempId].onload # "pending" /\ uploads[tempId].response # "pending") =>
            ~Uploading(tempId)

---------------------------------------------------------------------------
(* Properties of the export button (ButtonFairSpec)                        *)

\* C37: an export that starts sets isExporting; the flag is reset in the
\* end whether the file is downloaded, the server answers with an error or
\* the request fails; and no step of the export changes objects, history,
\* cursor or selection.
C37_BusyFlagReleased ==
    /\ [][(exportCall # "fetch" /\ exportCall' = "fetch") => isExporting']_vars
    /\ [](ExportIdle <=> ~isExporting)
    /\ isExporting ~> ~isExporting
    /\ [][(exportCall' # exportCall \/ isExporting' # isExporting) =>
             UNCHANGED <<objects, history, historyStep, selectedIds>>]_vars

\* An export has ended with an alert and the flag is reset, after an object
\* was added while the request was under way
C37_Witness ==
    /\ exportCall = "alerted"
    /\ ~isExporting
    /\ Len(objects) = 2

====
